---- MODULE Spec2Model ----
(***************************************************************************)
(* Model of the cold-outreach pipeline: the token rate limiter and the     *)
(* generation request loop of email_composer.py, the composer's lead loop, *)
(* and the stage orchestrator of app.py.                                   *)
(*                                                                         *)
(* Time is counted in ticks of 1/TicksPerSecond second, so that the        *)
(* truncation done by timedelta.seconds is visible.  Token amounts are     *)
(* small naturals (token units).                                           *)
(***************************************************************************)
EXTENDS Integers, Sequences, FiniteSets

\* ---------------------------------------------------------------- bounds
TicksPerSecond == 2
MaxSeconds == 122
MaxCost == 3
MaxUsed == 6
MaxTpm == 4
MaxLeads == 2

\* ------------------------------------------------------ program constants
WindowSeconds == 60
Minute == 60 * TicksPerSecond
DaySeconds == 86400
MaxTime == MaxSeconds * TicksPerSecond

Costs == 1..MaxCost
Usages == 0..MaxCost
TpmChoices == {MaxTpm - 2, MaxTpm}
\* clock advances between two limiter calls: 30 s, 59.5 s, 60 s, 60.5 s
Steps == {30 * TicksPerSecond, Minute - 1, Minute, Minute + 1}

\* ------------------------------------------------------------- strings
\* A Python str is a sequence of one-character strings.

StartsWith(s, prefix) ==
    /\ Len(s) >= Len(prefix)
    /\ SubSeq(s, 1, Len(prefix)) = prefix

RECURSIVE FindFrom(_, _, _)
FindFrom(s, sub, i) ==
    IF i + Len(sub) > Len(s) THEN -1
    ELSE IF SubSeq(s, i + 1, i + Len(sub)) = sub THEN i
    ELSE FindFrom(s, sub, i + 1)

\* str.find: the 0-based index of the first occurrence of sub in s, or -1
Find(s, sub) == FindFrom(s, sub, 0)

LowerChar(c) ==
    CASE c = "A" -> "a" [] c = "B" -> "b" [] c = "D" -> "d" [] c = "E" -> "e"
      [] c = "H" -> "h" [] c = "I" -> "i" [] c = "N" -> "n" [] c = "O" -> "o"
      [] c = "P" -> "p" [] c = "Y" -> "y"
      [] c = "R" -> "r" [] c = "S" -> "s" [] c = "T" -> "t" [] c = "U" -> "u"
      [] OTHER -> c

\* The character U+0130 (capital I with dot above) and the combining dot U+0307:
\* str.lower turns the first into "i" followed by the second, two characters.
DottedI == "U+0130"
CombiningDot == "U+0307"

\* str.lower of a one-character string
LowerStr(c) == IF c = DottedI THEN <<"i", CombiningDot>> ELSE <<LowerChar(c)>>

\* str.lower
RECURSIVE Lower(_)
Lower(s) == IF s = <<>> THEN <<>> ELSE LowerStr(Head(s)) \o Lower(Tail(s))

Whitespace == {" ", "\n", "\t", "\r"}

RECURSIVE LStrip(_)
LStrip(s) ==
    IF s = <<>> THEN s
    ELSE IF Head(s) \in Whitespace THEN LStrip(Tail(s))
    ELSE s

RECURSIVE RStrip(_)
RStrip(s) ==
    IF s = <<>> THEN s
    ELSE IF s[Len(s)] \in Whitespace THEN RStrip(SubSeq(s, 1, Len(s) - 1))
    ELSE s

\* str.strip
Strip(s) == RStrip(LStrip(s))

Marker == <<"B", "e", "t", "r", "e", "f", "f", ":">>
MarkerLower == <<"b", "e", "t", "r", "e", "f", "f", ":">>
Newline == <<"\n">>
LeadIns == {<<"h", "i", "e", "r", " ", "i", "s", "t">>, <<"h", "i", "e", "r", " ", "i", "s", "t", " ", "d", "i", "e">>,
            <<"d", "a", "s", " ", "i", "s", "t">>, <<"i", "c", "h", " ", "h", "a", "b", "e">>}
ErrorPrefix == <<"E", "r", "r", "o", "r", ":">>
ApiErrorPrefix == <<"A", "P", "I", " ", "E", "r", "r", "o", "r", ":">>
UnableText == <<"E", "r", "r", "o", "r", ":", " ", "U", "n", "a", "b", "l", "e", " ", "t", "o", " ", "g", "e", "n", "e", "r", "a", "t", "e", " ", "e", "m", "a", "i", "l", " ", "f", "o", "r", " ">>
ExhaustedHead == <<"A", "P", "I", " ", "E", "r", "r", "o", "r", " ", "a", "f", "t", "e", "r", " ">>
ExhaustedTail == <<" ", "a", "t", "t", "e", "m", "p", "t", "s", ":", " ">>
ExceptionText == <<"E", "r", "r", "o", "r", ":", " ">>

\* what the API and the environment can produce
GoodContent == <<"B", "e", "t", "r", "e", "f", "f", ":", " ", "H", "i", "\n", "O", "k">>
LeadInContent == <<"D", "a", "s", " ", "i", "s", "t", "\n", "B", "e", "t", "r", "e", "f", "f", ":", " ", "H", "i", "\n", "O", "k">>
LeadName == <<"A", "g">>
LeadEmail == <<"a", "@", "b">>

\* no email record
NoRecord == [subject |-> <<>>, from |-> "", to |-> <<>>, body |-> <<>>]

\* no update_json_file call was made
NoJsonCall == [data |-> NoRecord, raised |-> "none", ret |-> 0]

\* a value of generate_email_with_groq: None, or the str s
NoValue == [none |-> TRUE, s |-> <<>>]
Str(s) == [none |-> FALSE, s |-> s]

\* str(n) of a one-digit number
DigitStr(n) ==
    CASE n = 0 -> <<"0">> [] n = 1 -> <<"1">> [] n = 2 -> <<"2">> [] n = 3 -> <<"3">>
      [] n = 4 -> <<"4">> [] n = 5 -> <<"5">> [] n = 6 -> <<"6">> [] n = 7 -> <<"7">>
      [] n = 8 -> <<"8">> [] n = 9 -> <<"9">>

\* the module object of a stage: None when loaded is FALSE
NoModule == [loaded |-> FALSE, has_main |-> FALSE]

\* A limiter call: op, its argument, its result, the limiter state before it (used0,
\* start0) and its time t.  For a request_permission made right after a record_usage
\* at the same instant, rec_arg is the amount recorded and rec_used0 the counter
\* before it was recorded; otherwise both are -1.
NoCall == [op |-> "none", arg |-> 0, ret |-> 0, used0 |-> 0, start0 |-> 0, t |-> 0,
           rec_arg |-> -1, rec_used0 |-> -1]

\* no HTTP request was answered yet
NoResponse == [kind |-> "none", usage |-> -1,
               header |-> [present |-> FALSE, number |-> FALSE, seconds |-> 0]]

\* parse_email_content was not called
NoParse == [none |-> TRUE, subject |-> <<>>, body |-> <<>>]

VARIABLES
    tokens_per_minute,  \* TokenRateLimiter.tokens_per_minute
    used_tokens,        \* TokenRateLimiter.used_tokens
    window_start,       \* TokenRateLimiter.window_start (ticks)
    now,                \* datetime.now() (ticks)
    last_call,          \* the latest limiter call: operation, argument, result, state before it
    csv_exists,         \* leads_csv_path.exists()
    leads,              \* the rows of the leads CSV
    lead_i,             \* the 1-based position of the lead loop of the composer's main()
    pc,                 \* the control point of the composer
    attempt,            \* the loop variable of generate_email_with_groq
    requests,           \* HTTP requests issued by the current generate_email_with_groq call
    sleeps,             \* time.sleep calls of the current generate_email_with_groq call
    email_content,      \* the value generate_email_with_groq returned, until main() has used it
    outcome,            \* the return statement that produced email_content
    json_file,          \* the JSON output file
    text_files,         \* the text files written by save_email
    handled,            \* what main() did with the latest lead
    stage_i,            \* the 1-based position of the stage loop of app.main()
    opc,                \* the control point of app.main()
    module,             \* the module load_module returned for the current stage
    success,            \* the value run_module returned for the current stage
    ran,                \* one record per iteration of the stage loop: what was done
    main_result,        \* the value app.main() returned
    exit_status,        \* the status passed to sys.exit, -1 while the process runs
    permissions,        \* request_permission calls of the current generate_email_with_groq call
    received,           \* the answer to the latest HTTP request of the current call
    raw_text,           \* a text given to the clean-up and to parse_email_content
    cleaned,            \* the text after the clean-up of generate_email_with_groq
    parse_result,       \* the (subject, body) parse_email_content returned
    overspent,          \* a response of this composer run reported more tokens than estimated
    json_call,          \* the latest update_json_file call: record, exception, value returned
    spc,                \* the control point of the sender's main()
    test_recipient,     \* TEST_EMAIL_RECIPIENT
    test_email_data,    \* emails[0] as the sender's main() read it
    confirm_response,   \* the latest answer to "Do you want to send this test email?"
    continue_response,  \* the latest answer to "Proceed with the main email campaign?"
    send_success,       \* the value send_test_email returned
    sent                \* the messages handed to server.sendmail, with their recipient

lvars == <<tokens_per_minute, used_tokens, window_start, last_call>>
cvars == <<csv_exists, leads, lead_i, pc, attempt, requests, sleeps, email_content,
           outcome, json_file, text_files, handled, permissions, received,
           overspent, json_call>>
tvars == <<raw_text, cleaned, parse_result>>
ovars == <<stage_i, opc, module, success, ran, main_result, exit_status>>
svars == <<spc, test_recipient, test_email_data, confirm_response, continue_response,
           send_success, sent>>
vars == <<tokens_per_minute, used_tokens, window_start, now, last_call,
          csv_exists, leads, lead_i, pc, attempt, requests, sleeps, email_content,
          outcome, json_file, text_files, handled,
          stage_i, opc, module, success, ran, main_result, exit_status,
          permissions, received, raw_text, cleaned, parse_result,
          overspent, json_call,
          spc, test_recipient, test_email_data, confirm_response, continue_response,
          send_success, sent>>

\* ------------------------------------------------------- TokenRateLimiter

\* timedelta.seconds of a non-negative difference td (ticks): whole seconds, days dropped
Seconds(td) == (td \div TicksPerSecond) % DaySeconds

\* now - self.window_start > timedelta(minutes=1)
WindowElapsed(t, start) == t - start > Minute

\* remaining_tokens = self.tokens_per_minute - self.used_tokens
remaining_tokens(tpm, used) == tpm - used

\* mutant: the seconds elapsed in the window instead of the seconds left
seconds_until_reset_elapsed(t, start) == Seconds(t - start)

\* seconds_until_reset = 60 - (now - self.window_start).seconds
seconds_until_reset(t, start) == WindowSeconds - Seconds(t - start)

\* mutant: a request for exactly the remaining budget is refused
request_permission_strict(tpm, used, start, t, estimated_tokens) ==
    IF WindowElapsed(t, start) THEN 0
    ELSE IF remaining_tokens(tpm, used) > estimated_tokens THEN 0
    ELSE seconds_until_reset(t, start)

\* the value request_permission(estimated_tokens) returns at time t
request_permission(tpm, used, start, t, estimated_tokens) ==
    IF WindowElapsed(t, start) THEN 0
    ELSE IF remaining_tokens(tpm, used) >= estimated_tokens THEN 0
    ELSE seconds_until_reset(t, start)

\* self.used_tokens after request_permission at time t
permission_used(used, start, t) == IF WindowElapsed(t, start) THEN 0 ELSE used

\* mutant: the reset keeps the old window start
permission_start_kept(start, t) == start

\* self.window_start after request_permission at time t
permission_start(start, t) == IF WindowElapsed(t, start) THEN t ELSE start

\* mutant: the usage is subtracted
record_usage_subtract(used, tokens_used) == used - tokens_used

\* mutant: the usage replaces the counter
record_usage_assign(used, tokens_used) == tokens_used

\* self.used_tokens after record_usage(tokens_used)
record_usage(used, tokens_used) == used + tokens_used

\* mutant: a granted request is reserved against the budget at once
CallRequestPermission_reserves(estimated_tokens, t) ==
    /\ used_tokens' =
          IF request_permission(tokens_per_minute, used_tokens, window_start, t,
                                estimated_tokens) = 0
          THEN permission_used(used_tokens, window_start, t) + estimated_tokens
          ELSE permission_used(used_tokens, window_start, t)
    /\ window_start' = permission_start(window_start, t)
    /\ last_call' = [op |-> "request_permission", arg |-> estimated_tokens,
                     ret |-> request_permission(tokens_per_minute, used_tokens,
                                                window_start, t, estimated_tokens),
                     used0 |-> used_tokens, start0 |-> window_start, t |-> t,
                     rec_arg |-> IF last_call.op = "record_usage" /\ last_call.t = t
                                 THEN last_call.arg ELSE -1,
                     rec_used0 |-> IF last_call.op = "record_usage" /\ last_call.t = t
                                   THEN last_call.used0 ELSE -1]
    /\ UNCHANGED tokens_per_minute

\* the limiter's part of a request_permission call
CallRequestPermission(estimated_tokens, t) ==
    /\ used_tokens' = permission_used(used_tokens, window_start, t)
    /\ window_start' = permission_start(window_start, t)
    /\ last_call' = [op |-> "request_permission", arg |-> estimated_tokens,
                     ret |-> request_permission(tokens_per_minute, used_tokens,
                                                window_start, t, estimated_tokens),
                     used0 |-> used_tokens, start0 |-> window_start, t |-> t,
                     rec_arg |-> IF last_call.op = "record_usage" /\ last_call.t = t
                                 THEN last_call.arg ELSE -1,
                     rec_used0 |-> IF last_call.op = "record_usage" /\ last_call.t = t
                                   THEN last_call.used0 ELSE -1]
    /\ UNCHANGED tokens_per_minute

\* the limiter's part of a record_usage call
CallRecordUsage(tokens_used, t) ==
    /\ used_tokens' = record_usage(used_tokens, tokens_used)
    /\ last_call' = [op |-> "record_usage", arg |-> tokens_used, ret |-> 0,
                     used0 |-> used_tokens, start0 |-> window_start, t |-> t,
                     rec_arg |-> -1, rec_used0 |-> -1]
    /\ UNCHANGED <<tokens_per_minute, window_start>>

\* TokenRateLimiter(tokens_per_minute) constructed at time 0
LimiterInit ==
    /\ tokens_per_minute \in TpmChoices
    /\ used_tokens = 0
    /\ window_start = 0
    /\ now = 0
    /\ last_call = NoCall

\* the composer before main() is entered
ComposerIdle ==
    /\ csv_exists = TRUE
    /\ leads = <<>>
    /\ lead_i = 0
    /\ pc = "idle"
    /\ attempt = 0
    /\ requests = 0
    /\ sleeps = <<>>
    /\ email_content = NoValue
    /\ outcome = "none"
    /\ json_file = [exists |-> FALSE, valid |-> FALSE, array |-> FALSE, emails |-> <<>>]
    /\ text_files = {}
    /\ handled = "none"
    /\ permissions = 0
    /\ received = NoResponse
    /\ overspent = FALSE
    /\ json_call = NoJsonCall

\* no text is being cleaned or parsed
TextIdle ==
    /\ raw_text = <<>>
    /\ cleaned = NoValue
    /\ parse_result = NoParse

\* the sender before its main() is entered
SenderIdle ==
    /\ spc = "idle"
    /\ test_recipient = <<>>
    /\ test_email_data = NoRecord
    /\ confirm_response = <<>>
    /\ continue_response = <<>>
    /\ send_success = FALSE
    /\ sent = <<>>

\* the orchestrator before app.main() is entered
OrchestratorIdle ==
    /\ stage_i = 0
    /\ opc = "idle"
    /\ module = NoModule
    /\ success = FALSE
    /\ ran = <<>>
    /\ main_result = "none"
    /\ exit_status = -1

\* ------------------------------------- the limiter under arbitrary callers

LRequestPermission ==
    \E estimated_tokens \in Costs :
        /\ CallRequestPermission(estimated_tokens, now)
        /\ UNCHANGED now
        /\ UNCHANGED cvars
        /\ UNCHANGED <<ovars, tvars, svars>>

LRecordUsage ==
    \E tokens_used \in Usages :
        /\ used_tokens + tokens_used <= MaxUsed
        /\ CallRecordUsage(tokens_used, now)
        /\ UNCHANGED now
        /\ UNCHANGED cvars
        /\ UNCHANGED <<ovars, tvars, svars>>

LAdvance ==
    \E d \in Steps :
        /\ now + d <= MaxTime
        /\ now' = now + d
        /\ UNCHANGED lvars
        /\ UNCHANGED cvars
        /\ UNCHANGED <<ovars, tvars, svars>>

LimiterNext == LRequestPermission \/ LRecordUsage \/ LAdvance

\* a limiter of its own, called by no composer
HarnessInit ==
    /\ LimiterInit
    /\ ComposerIdle
    /\ SenderIdle
    /\ TextIdle
    /\ OrchestratorIdle

SpecLimiter == HarnessInit /\ [][LimiterNext]_vars

\* ------------------------------------------------ generate_email_with_groq

max_retries == 3
DefaultRetryAfter == 60
BackoffSeconds == 5

\* the time one HTTP request takes, in ticks
RequestTicks == {1}
\* the responses with choices: the text and usage.total_tokens (-1: no usage reported)
Responses ==
    { [content |-> GoodContent, usage |-> -1],
      [content |-> LeadInContent, usage |-> MaxCost],
      [content |-> <<>>, usage |-> 1] }
\* the Retry-After header of a 429 response
RetryAfterHeaders ==
    { [present |-> FALSE, number |-> FALSE, seconds |-> 0],
      [present |-> TRUE, number |-> FALSE, seconds |-> 0],
      [present |-> TRUE, number |-> TRUE, seconds |-> 1] }

\* str(e) of the exception an attempt raises: the text names the attempt, so that
\* the errors of one call differ from each other
Messages == {<<"d", "o", "w", "n">> \o DigitStr(attempt)}

\* estimated_tokens = len(prompt.split()) * 1.3 + 1024, in token units
estimated_tokens(lead) == lead.cost

\* the removal of an introductory text in front of the marker
CleanUp(content) ==
    IF \E p \in LeadIns : StartsWith(Lower(content), p)
    THEN LET subject_index == Find(Lower(content), MarkerLower)
         IN  IF subject_index /= -1
             THEN SubSeq(content, subject_index + 1, Len(content))
             ELSE content
    ELSE content

\* f"API Error after {max_retries} attempts: {str(e)}"
ExhaustedText(e) == ExhaustedHead \o DigitStr(max_retries) \o ExhaustedTail \o e

\* return value
Return(value, how) ==
    /\ pc' = "handle"
    /\ email_content' = value
    /\ outcome' = how
    /\ UNCHANGED attempt

\* the for statement: the next value of range(max_retries), or the end of the
\* function body, where the call returns None
NextAttempt ==
    IF attempt + 1 < max_retries
    THEN /\ attempt' = attempt + 1
         /\ pc' = "attempt"
         /\ UNCHANGED <<email_content, outcome>>
    ELSE /\ pc' = "handle"
         /\ email_content' = NoValue
         /\ outcome' = "fell_through"
         /\ UNCHANGED attempt

\* time.sleep(seconds) after d ticks of other work
SleepAfter(d, why, seconds) ==
    /\ now' = now + d + seconds * TicksPerSecond
    /\ sleeps' = Append(sleeps, [why |-> why, seconds |-> seconds, attempt |-> attempt])

\* mutant: the handler retries at the last attempt too
OnRequestException_retry_always(d, e) ==
    IF attempt < max_retries
    THEN /\ SleepAfter(d, "backoff", BackoffSeconds * (attempt + 1))
         /\ NextAttempt
    ELSE /\ now' = now + d
         /\ Return(Str(ExhaustedText(e)), "retries_exhausted")
         /\ UNCHANGED sleeps

\* mutant: the sleep before a retry does not grow with the attempt
OnRequestException_constant_backoff(d, e) ==
    IF attempt < max_retries - 1
    THEN /\ SleepAfter(d, "backoff", BackoffSeconds)
         /\ NextAttempt
    ELSE /\ now' = now + d
         /\ Return(Str(ExhaustedText(e)), "retries_exhausted")
         /\ UNCHANGED sleeps

\* the exception handler for requests.exceptions.RequestException raised d ticks
\* after the request was issued
OnRequestException(d, e) ==
    IF attempt < max_retries - 1
    THEN /\ SleepAfter(d, "backoff", BackoffSeconds * (attempt + 1))
         /\ NextAttempt
    ELSE /\ now' = now + d
         /\ Return(Str(ExhaustedText(e)), "retries_exhausted")
         /\ UNCHANGED sleeps

\* the permission check before the loop, and the sleep it asks for
GenPermission ==
    /\ pc = "permission"
    /\ LET est == estimated_tokens(leads[lead_i])
           wait_time == request_permission(tokens_per_minute, used_tokens,
                                           window_start, now, est)
       IN  /\ CallRequestPermission(est, now)
           /\ IF wait_time > 0
              THEN SleepAfter(0, "rate_limit", wait_time)
              ELSE UNCHANGED <<now, sleeps>>
    /\ pc' = "attempt"
    /\ UNCHANGED <<csv_exists, leads, lead_i, attempt, requests, email_content,
                   outcome, json_file, text_files, handled>>
    /\ permissions' = permissions + 1
    /\ UNCHANGED received
    /\ UNCHANGED <<overspent, json_call>>
    /\ UNCHANGED <<ovars, tvars, svars>>

\* mutant: the estimate is recorded, whatever usage the response reports
GenSuccess_records_estimate ==
    /\ pc = "attempt"
    /\ \E d \in RequestTicks, response \in Responses :
          LET est == estimated_tokens(leads[lead_i])
              total_tokens == est
          IN  /\ now' = now + d
              /\ overspent' = (overspent \/ response.usage > est)
              /\ received' = [NoResponse EXCEPT !.kind = "choices", !.usage = response.usage]
              /\ CallRecordUsage(total_tokens, now + d)
              /\ Return(Str(CleanUp(response.content)), "text")
    /\ requests' = requests + 1
    /\ UNCHANGED <<csv_exists, leads, lead_i, sleeps, json_file, text_files, handled>>
    /\ UNCHANGED permissions
    /\ UNCHANGED json_call
    /\ UNCHANGED <<ovars, tvars, svars>>

\* a request answered with choices: clean-up, record_usage, return of the text
GenSuccess ==
    /\ pc = "attempt"
    /\ \E d \in RequestTicks, response \in Responses :
          LET est == estimated_tokens(leads[lead_i])
              total_tokens == IF response.usage = -1 THEN est ELSE response.usage
          IN  /\ now' = now + d
              /\ overspent' = (overspent \/ response.usage > est)
              /\ received' = [NoResponse EXCEPT !.kind = "choices", !.usage = response.usage]
              /\ CallRecordUsage(total_tokens, now + d)
              /\ Return(Str(CleanUp(response.content)), "text")
    /\ requests' = requests + 1
    /\ UNCHANGED <<csv_exists, leads, lead_i, sleeps, json_file, text_files, handled>>
    /\ UNCHANGED permissions
    /\ UNCHANGED json_call
    /\ UNCHANGED <<ovars, tvars, svars>>

\* a request answered with status 429
GenThrottled ==
    /\ pc = "attempt"
    /\ \E d \in RequestTicks, header \in RetryAfterHeaders, e \in Messages :
          /\ received' = [NoResponse EXCEPT !.kind = "429", !.header = header]
          /\ IF attempt < max_retries - 1
             THEN IF header.present /\ ~header.number
                  THEN \* int() raises ValueError
                       /\ now' = now + d
                       /\ Return(Str(ExceptionText \o e), "exception")
                       /\ UNCHANGED sleeps
                  ELSE /\ SleepAfter(d, "throttled",
                                     IF header.present THEN header.seconds
                                     ELSE DefaultRetryAfter)
                       /\ NextAttempt
             ELSE \* raise_for_status() raises HTTPError, a RequestException
                  OnRequestException(d, e)
    /\ requests' = requests + 1
    /\ UNCHANGED <<csv_exists, leads, lead_i, json_file, text_files, handled>>
    /\ UNCHANGED lvars
    /\ UNCHANGED permissions
    /\ UNCHANGED <<overspent, json_call>>
    /\ UNCHANGED <<ovars, tvars, svars>>

\* a request that raises a RequestException: no connection, or an error status
GenTransportError ==
    /\ pc = "attempt"
    /\ \E d \in RequestTicks, e \in Messages :
          /\ received' = [NoResponse EXCEPT !.kind = "transport_error"]
          /\ OnRequestException(d, e)
    /\ requests' = requests + 1
    /\ UNCHANGED <<csv_exists, leads, lead_i, json_file, text_files, handled>>
    /\ UNCHANGED lvars
    /\ UNCHANGED permissions
    /\ UNCHANGED <<overspent, json_call>>
    /\ UNCHANGED <<ovars, tvars, svars>>

\* a response without choices
GenNoChoices ==
    /\ pc = "attempt"
    /\ \E d \in RequestTicks :
          /\ now' = now + d
          /\ received' = [NoResponse EXCEPT !.kind = "no_choices"]
          /\ Return(Str(UnableText \o leads[lead_i].name), "no_choices")
    /\ requests' = requests + 1
    /\ UNCHANGED <<csv_exists, leads, lead_i, sleeps, json_file, text_files, handled>>
    /\ UNCHANGED lvars
    /\ UNCHANGED permissions
    /\ UNCHANGED <<overspent, json_call>>
    /\ UNCHANGED <<ovars, tvars, svars>>

\* any other exception while the response is handled
GenUnexpected ==
    /\ pc = "attempt"
    /\ \E d \in RequestTicks, e \in Messages :
          /\ now' = now + d
          /\ received' = [NoResponse EXCEPT !.kind = "unexpected"]
          /\ Return(Str(ExceptionText \o e), "exception")
    /\ requests' = requests + 1
    /\ UNCHANGED <<csv_exists, leads, lead_i, sleeps, json_file, text_files, handled>>
    /\ UNCHANGED lvars
    /\ UNCHANGED permissions
    /\ UNCHANGED <<overspent, json_call>>
    /\ UNCHANGED <<ovars, tvars, svars>>

\* ---------------------------------------------------- the composer's main()

\* mutant: the subject and the body are not stripped after the split
split_subject_unstripped(content) ==
    CHOOSE parsed \in
        { IF line_break_index /= -1
          THEN [subject |-> SubSeq(content, 1, line_break_index),
                body |-> SubSeq(content, line_break_index + 1, Len(content))]
          ELSE [subject |-> content, body |-> <<>>]
          : line_break_index \in {Find(content, Newline)} } : TRUE

\* the subject and the body of the stripped text after the marker, split at its
\* first line break, if it has one
split_subject(content) ==
    CHOOSE parsed \in
        { IF line_break_index /= -1
          THEN [subject |-> Strip(SubSeq(content, 1, line_break_index)),
                body |-> Strip(SubSeq(content, line_break_index + 1, Len(content)))]
          ELSE [subject |-> content, body |-> <<>>]
          : line_break_index \in {Find(content, Newline)} } : TRUE

\* parse_email_content: parts[1] of email_content.split("Betreff:", 1) is the text
\* after the first marker
parse_email_content(email_content0) ==
    IF Find(email_content0, Marker) /= -1
    THEN CHOOSE parsed \in
            { split_subject(content)
              : content \in {Strip(SubSeq(email_content0,
                                          Find(email_content0, Marker) + Len(Marker) + 1,
                                          Len(email_content0)))} } : TRUE
    ELSE [subject |-> <<>>, body |-> email_content0]

\* the test main() makes on the value of generate_email_with_groq
Accepted(value) ==
    /\ ~value.none
    /\ Len(value.s) > 0
    /\ ~StartsWith(value.s, ErrorPrefix)
    /\ ~StartsWith(value.s, ApiErrorPrefix)

\* mutant: the stored array is never loaded
loaded_emails_nothing(file) == <<>>

\* the array update_json_file works on: the file's, or empty when the file is
\* missing or is not JSON
loaded_emails(file) == IF file.exists /\ file.valid THEN file.emails ELSE <<>>

\* json.load gave a value that is not a list: all_emails.append raises AttributeError
update_raises(file) == file.exists /\ file.valid /\ ~file.array

\* the file after update_json_file(email_data, json_file_path)
update_json_file(email_data, file) ==
    IF update_raises(file) THEN file
    ELSE [exists |-> TRUE, valid |-> TRUE, array |-> TRUE,
          emails |-> Append(loaded_emails(file), email_data)]

\* the update_json_file call: its record, its exception, the len(all_emails) returned
JsonCall(email_data, file) ==
    [data |-> email_data,
     raised |-> IF update_raises(file) THEN "AttributeError" ELSE "none",
     ret |-> IF update_raises(file) THEN 0
             ELSE Len(update_json_file(email_data, file).emails)]

\* the files after save_email: one file per lead name, overwritten
save_email(files, name, content) ==
    {f \in files : f.name /= name} \cup {[name |-> name, content |-> content]}

\* main() up to the lead loop
MainStart ==
    /\ pc = "main"
    /\ used_tokens' = 0
    /\ window_start' = now
    /\ IF csv_exists
       THEN /\ pc' = "lead"
            /\ lead_i' = 1
       ELSE /\ pc' = "returned"
            /\ UNCHANGED lead_i
    /\ UNCHANGED <<tokens_per_minute, now, last_call, csv_exists, leads, attempt,
                   requests, sleeps, email_content, outcome, json_file, text_files,
                   handled>>
    /\ UNCHANGED <<permissions, received>>
    /\ overspent' = FALSE
    /\ UNCHANGED json_call
    /\ UNCHANGED <<ovars, tvars, svars>>

\* mutant: a lead without a name or an email address is passed on to the generation
MainSkip_generates ==
    /\ pc = "lead"
    /\ lead_i <= Len(leads)
    /\ \/ /\ leads[lead_i].name = <<>>
          /\ handled' = "skipped_no_name"
       \/ /\ leads[lead_i].name /= <<>>
          /\ leads[lead_i].emails = <<>>
          /\ handled' = "skipped_no_email"
    /\ pc' = "permission"
    /\ UNCHANGED <<now, csv_exists, leads, lead_i, attempt, requests, sleeps,
                   email_content, outcome, json_file, text_files>>
    /\ UNCHANGED lvars
    /\ UNCHANGED <<permissions, received>>
    /\ UNCHANGED <<overspent, json_call>>
    /\ UNCHANGED <<ovars, tvars, svars>>

\* a lead without a name or without an email address
MainSkip ==
    /\ pc = "lead"
    /\ lead_i <= Len(leads)
    /\ \/ /\ leads[lead_i].name = <<>>
          /\ handled' = "skipped_no_name"
       \/ /\ leads[lead_i].name /= <<>>
          /\ leads[lead_i].emails = <<>>
          /\ handled' = "skipped_no_email"
    /\ lead_i' = lead_i + 1
    /\ UNCHANGED <<now, csv_exists, leads, pc, attempt, requests, sleeps,
                   email_content, outcome, json_file, text_files>>
    /\ UNCHANGED lvars
    /\ UNCHANGED <<permissions, received>>
    /\ UNCHANGED <<overspent, json_call>>
    /\ UNCHANGED <<ovars, tvars, svars>>

\* main() calls generate_email_with_groq for the lead
MainGenerate ==
    /\ pc = "lead"
    /\ lead_i <= Len(leads)
    /\ leads[lead_i].name /= <<>>
    /\ leads[lead_i].emails /= <<>>
    /\ pc' = "permission"
    /\ UNCHANGED <<now, csv_exists, leads, lead_i, attempt, requests, sleeps,
                   email_content, outcome, json_file, text_files, handled>>
    /\ UNCHANGED lvars
    /\ UNCHANGED <<permissions, received>>
    /\ UNCHANGED <<overspent, json_call>>
    /\ UNCHANGED <<ovars, tvars, svars>>

\* the record main() appends for the accepted text of a lead
email_data(lead, content) ==
    [subject |-> parse_email_content(content).subject, from |-> "EMAIL_FROM",
     to |-> lead.emails, body |-> parse_email_content(content).body]

\* main() saves the accepted text and appends its record
MainSave ==
    /\ pc = "handle"
    /\ Accepted(email_content)
    /\ text_files' = save_email(text_files, leads[lead_i].name, email_content.s)
    /\ json_file' = update_json_file(email_data(leads[lead_i], email_content.s), json_file)
    /\ handled' = "saved"
    /\ lead_i' = lead_i + 1
    /\ pc' = IF update_raises(json_file) THEN "raised" ELSE "lead"
    /\ attempt' = 0
    /\ requests' = 0
    /\ sleeps' = <<>>
    /\ email_content' = NoValue
    /\ outcome' = "none"
    /\ UNCHANGED <<now, csv_exists, leads>>
    /\ UNCHANGED lvars
    /\ permissions' = 0
    /\ received' = NoResponse
    /\ json_call' = JsonCall(email_data(leads[lead_i], email_content.s), json_file)
    /\ UNCHANGED overspent
    /\ UNCHANGED <<ovars, tvars, svars>>

\* mutant: a value main() does not accept ends the lead loop
MainReject_returns ==
    /\ pc = "handle"
    /\ ~Accepted(email_content)
    /\ handled' = "failed"
    /\ pc' = "returned"
    /\ attempt' = 0
    /\ requests' = 0
    /\ sleeps' = <<>>
    /\ email_content' = NoValue
    /\ outcome' = "none"
    /\ UNCHANGED <<now, csv_exists, leads, lead_i, json_file, text_files>>
    /\ UNCHANGED lvars
    /\ permissions' = 0
    /\ received' = NoResponse
    /\ UNCHANGED <<overspent, json_call>>
    /\ UNCHANGED <<ovars, tvars, svars>>

\* main() reports a value it does not accept and writes nothing
MainReject ==
    /\ pc = "handle"
    /\ ~Accepted(email_content)
    /\ handled' = "failed"
    /\ lead_i' = lead_i + 1
    /\ pc' = "lead"
    /\ attempt' = 0
    /\ requests' = 0
    /\ sleeps' = <<>>
    /\ email_content' = NoValue
    /\ outcome' = "none"
    /\ UNCHANGED <<now, csv_exists, leads, json_file, text_files>>
    /\ UNCHANGED lvars
    /\ permissions' = 0
    /\ received' = NoResponse
    /\ UNCHANGED <<overspent, json_call>>
    /\ UNCHANGED <<ovars, tvars, svars>>

\* the lead loop is over and main() returns
MainFinish ==
    /\ pc = "lead"
    /\ lead_i > Len(leads)
    /\ pc' = "returned"
    /\ UNCHANGED <<now, csv_exists, leads, lead_i, attempt, requests, sleeps,
                   email_content, outcome, json_file, text_files, handled>>
    /\ UNCHANGED lvars
    /\ UNCHANGED <<permissions, received>>
    /\ UNCHANGED <<overspent, json_call>>
    /\ UNCHANGED <<ovars, tvars, svars>>

\* the rows a leads CSV can hold: a complete lead, one without a name, one without
\* an email address
LeadChoices ==
    { [name |-> LeadName, emails |-> LeadEmail, cost |-> MaxCost - 1],
      [name |-> <<>>, emails |-> LeadEmail, cost |-> MaxCost - 1],
      [name |-> LeadName, emails |-> <<>>, cost |-> MaxCost - 1] }

\* the CSVs of MaxLeads rows, and the empty one
LeadLists == [1..MaxLeads -> LeadChoices] \cup {<<>>}

OldRecord == [subject |-> <<"x">>, from |-> "EMAIL_FROM", to |-> <<"o">>, body |-> <<"y">>]

\* the JSON output file before the run: missing, not JSON, or an array
JsonFiles ==
    { [exists |-> FALSE, valid |-> FALSE, array |-> FALSE, emails |-> <<>>],
      [exists |-> TRUE, valid |-> FALSE, array |-> FALSE, emails |-> <<>>],
      [exists |-> TRUE, valid |-> TRUE, array |-> TRUE, emails |-> <<OldRecord>>] }

ComposerInit ==
    /\ tokens_per_minute \in TpmChoices
    /\ used_tokens = 0
    /\ window_start = 0
    /\ now = 0
    /\ last_call = NoCall
    /\ \/ csv_exists = TRUE /\ leads \in LeadLists
       \/ csv_exists = FALSE /\ leads = <<>>
    /\ lead_i = 0
    /\ pc = "main"
    /\ attempt = 0
    /\ requests = 0
    /\ sleeps = <<>>
    /\ email_content = NoValue
    /\ outcome = "none"
    /\ json_file \in JsonFiles
    /\ text_files = {}
    /\ handled = "none"
    /\ permissions = 0
    /\ received = NoResponse
    /\ overspent = FALSE
    /\ json_call = NoJsonCall
    /\ TextIdle
    /\ OrchestratorIdle
    /\ SenderIdle

ComposerNext ==
    \/ MainStart
    \/ MainSkip
    \/ MainGenerate
    \/ GenPermission
    \/ GenSuccess
    \/ GenThrottled
    \/ GenTransportError
    \/ GenNoChoices
    \/ GenUnexpected
    \/ MainSave
    \/ MainReject
    \/ MainFinish

SpecComposer == ComposerInit /\ [][ComposerNext]_vars

\* one HTTP request and what the loop does with its answer
GenAttempt ==
    GenSuccess \/ GenThrottled \/ GenTransportError \/ GenNoChoices \/ GenUnexpected

\* The composer is one thread of blocking calls: a statement that can run does run,
\* every sleep ends and every HTTP request is answered or raises.
SpecComposerFair ==
    /\ SpecComposer
    /\ WF_vars(MainStart)
    /\ WF_vars(MainSkip \/ MainGenerate \/ MainFinish)
    /\ WF_vars(GenPermission)
    /\ WF_vars(GenAttempt)
    /\ WF_vars(MainSave \/ MainReject)

\* ------------------------------------------------------- the orchestrator

\* modules = [leads, email_composer, email_sender]
Stages == <<"leads", "email_composer", "email_sender">>

\* values a stage's main() returns
PyNone == [none |-> TRUE, truth |-> FALSE]
PyTrue == [none |-> FALSE, truth |-> TRUE]
PyFalse == [none |-> FALSE, truth |-> FALSE]

\* main() was not called
NoOutcome == [raised |-> FALSE, result |-> PyNone, work |-> "not_run"]

\* How the main() of each stage can end: by an exception, or with a result; work
\* tells what the stage did ("done": it did all of its work).
StageOutcomes(name) ==
    IF name = "leads"
    THEN { [raised |-> FALSE, result |-> PyFalse, work |-> "fetch_failed"],
           [raised |-> FALSE, result |-> PyFalse, work |-> "process_failed"],
           [raised |-> FALSE, result |-> PyFalse, work |-> "save_failed"],
           [raised |-> FALSE, result |-> PyTrue, work |-> "done"] }
    ELSE IF name = "email_composer"
    THEN { [raised |-> FALSE, result |-> PyNone, work |-> "csv_missing"],
           [raised |-> FALSE, result |-> PyNone, work |-> "done"],
           [raised |-> TRUE, result |-> PyNone, work |-> "exception"] }
    ELSE { [raised |-> FALSE, result |-> PyNone, work |-> "no_emails"],
           [raised |-> FALSE, result |-> PyNone, work |-> "cancelled"],
           [raised |-> FALSE, result |-> PyNone, work |-> "send_failed"],
           [raised |-> FALSE, result |-> PyNone, work |-> "done"],
           [raised |-> TRUE, result |-> PyNone, work |-> "exception"] }

\* what load_module can return: None, a module with main(), a module without
Modules ==
    { NoModule, [loaded |-> TRUE, has_main |-> TRUE], [loaded |-> TRUE, has_main |-> FALSE] }

\* mutant: a main() that returns nothing counts as a failure
run_module_none_fails(mod, o) ==
    IF ~mod.loaded THEN FALSE
    ELSE IF mod.has_main
         THEN IF o.raised THEN FALSE
              ELSE IF ~o.result.none THEN o.result.truth
              ELSE FALSE
         ELSE FALSE

\* run_module(module, module_name), where main() ends with outcome o
run_module(mod, o) ==
    IF ~mod.loaded THEN FALSE
    ELSE IF mod.has_main
         THEN IF o.raised THEN FALSE
              ELSE IF ~o.result.none THEN o.result.truth
              ELSE TRUE
         ELSE FALSE

\* the last record of ran with field f set to v
Noted(f, v) == [ran EXCEPT ![Len(ran)] = [@ EXCEPT ![f] = v]]

\* module_path.exists(), and the return when the file is missing
OrchCheckExists ==
    /\ opc = "exists"
    /\ \E exists \in BOOLEAN :
          /\ ran' = Append(ran, [stage |-> Stages[stage_i], exists |-> exists,
                                 load_called |-> FALSE, executed |-> FALSE,
                                 outcome |-> NoOutcome, success |-> FALSE])
          /\ IF exists
             THEN /\ opc' = "load"
                  /\ UNCHANGED main_result
             ELSE /\ opc' = "returned"
                  /\ main_result' = "False"
    /\ UNCHANGED <<stage_i, module, success, exit_status>>
    /\ UNCHANGED <<now, lvars, cvars, tvars, svars>>

\* module = load_module(module_name, module_path)
OrchLoad ==
    /\ opc = "load"
    /\ \E m \in Modules : module' = m
    /\ ran' = Noted("load_called", TRUE)
    /\ opc' = "run"
    /\ UNCHANGED <<stage_i, success, main_result, exit_status>>
    /\ UNCHANGED <<now, lvars, cvars, tvars, svars>>

\* success = run_module(module, module_name), for a module whose main() is called
OrchRunMain ==
    /\ opc = "run"
    /\ module.loaded
    /\ module.has_main
    /\ \E o \in StageOutcomes(Stages[stage_i]) :
          /\ success' = run_module(module, o)
          /\ ran' = [ran EXCEPT ![Len(ran)] =
                        [@ EXCEPT !.executed = TRUE, !.outcome = o,
                                  !.success = run_module(module, o)]]
    /\ opc' = "judge"
    /\ UNCHANGED <<stage_i, module, main_result, exit_status>>
    /\ UNCHANGED <<now, lvars, cvars, tvars, svars>>

\* success = run_module(module, module_name), for None or a module without main()
OrchRunNothing ==
    /\ opc = "run"
    /\ ~(module.loaded /\ module.has_main)
    /\ success' = run_module(module, NoOutcome)
    /\ ran' = Noted("success", run_module(module, NoOutcome))
    /\ opc' = "judge"
    /\ UNCHANGED <<stage_i, module, main_result, exit_status>>
    /\ UNCHANGED <<now, lvars, cvars, tvars, svars>>

\* mutant: the loop goes on after a failed stage
OrchJudge_goes_on ==
    /\ opc = "judge"
    /\ IF stage_i < Len(Stages)
       THEN /\ stage_i' = stage_i + 1
            /\ opc' = "exists"
            /\ UNCHANGED main_result
       ELSE /\ opc' = "returned"
            /\ main_result' = IF success THEN "True" ELSE "False"
            /\ UNCHANGED stage_i
    /\ UNCHANGED <<module, success, ran, exit_status>>
    /\ UNCHANGED <<now, lvars, cvars, tvars, svars>>

\* if not success: return False; else the next stage, or return True after the last
OrchJudge ==
    /\ opc = "judge"
    /\ IF ~success
       THEN /\ opc' = "returned"
            /\ main_result' = "False"
            /\ UNCHANGED stage_i
       ELSE IF stage_i < Len(Stages)
            THEN /\ stage_i' = stage_i + 1
                 /\ opc' = "exists"
                 /\ UNCHANGED main_result
            ELSE /\ opc' = "returned"
                 /\ main_result' = "True"
                 /\ UNCHANGED stage_i
    /\ UNCHANGED <<module, success, ran, exit_status>>
    /\ UNCHANGED <<now, lvars, cvars, tvars, svars>>

\* sys.exit(0 if success else 1)
OrchExit ==
    /\ opc = "returned"
    /\ exit_status' = IF main_result = "True" THEN 0 ELSE 1
    /\ opc' = "exited"
    /\ UNCHANGED <<stage_i, module, success, ran, main_result>>
    /\ UNCHANGED <<now, lvars, cvars, tvars, svars>>

\* `except handler:` catches an exception of class raised.  The classes met here are
\* Exception and KeyboardInterrupt, both direct subclasses of BaseException.
Catches(handler, raised) == handler = raised \/ handler = "BaseException"

\* mutant: load_module and run_module catch everything, like a bare except
CaughtBelow_bare(raised) == TRUE

\* the handlers of load_module and run_module: except Exception
CaughtBelow(raised) == Catches("Exception", raised)

\* the handlers around main(): except KeyboardInterrupt: sys.exit(130), then
\* except Exception: sys.exit(1); anything else ends the interpreter with status 1
TopLevelStatus(raised) ==
    IF Catches("KeyboardInterrupt", raised) THEN 130
    ELSE IF Catches("Exception", raised) THEN 1
    ELSE 1

Interrupts == {"interrupt_in_load", "interrupt_in_run", "interrupt_in_main"}

\* the user interrupts the workflow: KeyboardInterrupt is raised where main() is,
\* inside load_module, inside run_module, or in main() itself
OrchInterrupt ==
    /\ opc \in {"exists", "load", "run", "judge"}
    /\ opc' = IF opc = "load" THEN "interrupt_in_load"
              ELSE IF opc = "run" THEN "interrupt_in_run"
              ELSE "interrupt_in_main"
    /\ UNCHANGED <<stage_i, module, success, ran, main_result, exit_status>>
    /\ UNCHANGED <<now, lvars, cvars, tvars, svars>>

\* the KeyboardInterrupt meets the handlers on its way up: the one of load_module
\* (return None), the one of run_module (return False), then the top level's
OrchUnwind ==
    /\ opc \in Interrupts
    /\ IF opc = "interrupt_in_load" /\ CaughtBelow("KeyboardInterrupt")
       THEN /\ module' = NoModule
            /\ ran' = Noted("load_called", TRUE)
            /\ opc' = "run"
            /\ UNCHANGED <<success, exit_status>>
       ELSE IF opc = "interrupt_in_run" /\ CaughtBelow("KeyboardInterrupt")
       THEN /\ success' = FALSE
            /\ ran' = Noted("success", FALSE)
            /\ opc' = "judge"
            /\ UNCHANGED <<module, exit_status>>
       ELSE /\ exit_status' = TopLevelStatus("KeyboardInterrupt")
            /\ opc' = "exited"
            /\ UNCHANGED <<module, success, ran>>
    /\ UNCHANGED <<stage_i, main_result>>
    /\ UNCHANGED <<now, lvars, cvars, tvars, svars>>

\* an exception that leaves main(): module_path.exists() raises
OrchEscape ==
    /\ opc = "exists"
    /\ exit_status' = TopLevelStatus("Exception")
    /\ opc' = "exited"
    /\ UNCHANGED <<stage_i, module, success, ran, main_result>>
    /\ UNCHANGED <<now, lvars, cvars, tvars, svars>>

OrchestratorInit ==
    /\ stage_i = 1
    /\ opc = "exists"
    /\ module = NoModule
    /\ success = FALSE
    /\ ran = <<>>
    /\ main_result = "none"
    /\ exit_status = -1

OrchestratorNext ==
    \/ OrchCheckExists
    \/ OrchLoad
    \/ OrchRunMain
    \/ OrchRunNothing
    \/ OrchJudge
    \/ OrchExit
    \/ OrchInterrupt
    \/ OrchUnwind
    \/ OrchEscape

\* the process before app.main() is entered: no limiter call, no composer step yet
PipelineInit ==
    /\ tokens_per_minute = MaxTpm
    /\ LimiterInit
    /\ ComposerIdle
    /\ SenderIdle
    /\ TextIdle
    /\ OrchestratorInit

SpecOrchestrator == PipelineInit /\ [][OrchestratorNext]_vars

\* ------------------------------------- one call of generate_email_with_groq

CompleteLead == [name |-> LeadName, emails |-> LeadEmail, cost |-> MaxCost - 1]

\* the times, in ticks after window_start, at which the call is made
CallTimes == {0, Minute - 1, Minute, Minute + 1}

\* main() calls generate_email_with_groq with a limiter that holds any usage
GenerateInit ==
    /\ tokens_per_minute \in TpmChoices
    /\ used_tokens \in 0..MaxUsed
    /\ window_start = 0
    /\ now \in CallTimes
    /\ last_call = NoCall
    /\ csv_exists = TRUE
    /\ leads = <<CompleteLead>>
    /\ lead_i = 1
    /\ pc = "permission"
    /\ attempt = 0
    /\ requests = 0
    /\ sleeps = <<>>
    /\ email_content = NoValue
    /\ outcome = "none"
    /\ json_file = [exists |-> FALSE, valid |-> FALSE, array |-> FALSE, emails |-> <<>>]
    /\ text_files = {}
    /\ handled = "none"
    /\ permissions = 0
    /\ received = NoResponse
    /\ overspent = FALSE
    /\ json_call = NoJsonCall
    /\ TextIdle
    /\ OrchestratorIdle
    /\ SenderIdle

GenerateNext ==
    \/ GenPermission
    \/ GenSuccess
    \/ GenThrottled
    \/ GenTransportError
    \/ GenNoChoices
    \/ GenUnexpected

SpecGenerate == GenerateInit /\ [][GenerateNext]_vars

\* every sleep ends and every HTTP request is answered or raises
SpecGenerateFair ==
    /\ SpecGenerate
    /\ WF_vars(GenPermission)
    /\ WF_vars(GenAttempt)

\* ------------------------- the clean-up and parse_email_content on any text

\* the number of pieces a text is made of, at most
MaxPieces == 4

\* what the texts are made of: the marker as the prompt asks for it and in lower
\* case, a line break, a blank, a letter, a lead-in phrase, and the character U+0130
Pieces ==
    { Marker, MarkerLower, Newline, <<" ">>, <<"H">>,
      <<"D", "a", "s", " ", "i", "s", "t">>, <<DottedI>> }

RECURSIVE Join(_, _)
Join(f, n) == IF n = 0 THEN <<>> ELSE Join(f, n - 1) \o f[n]

Texts == UNION { { Join(f, n) : f \in [1..n -> Pieces] } : n \in 0..MaxPieces }

\* a text of the model's answer, before the clean-up and before the parsing
TextInit ==
    /\ tokens_per_minute = MaxTpm
    /\ LimiterInit
    /\ ComposerIdle
    /\ SenderIdle
    /\ OrchestratorIdle
    /\ raw_text \in Texts
    /\ cleaned = NoValue
    /\ parse_result = NoParse

\* the clean-up of generate_email_with_groq applied to the text
TextCleanUp ==
    /\ cleaned.none
    /\ cleaned' = Str(CleanUp(raw_text))
    /\ UNCHANGED <<raw_text, parse_result>>
    /\ UNCHANGED <<now, lvars, cvars, ovars, svars>>

\* parse_email_content applied to the text
TextParse ==
    /\ parse_result.none
    /\ parse_result' = [none |-> FALSE,
                        subject |-> parse_email_content(raw_text).subject,
                        body |-> parse_email_content(raw_text).body]
    /\ UNCHANGED <<raw_text, cleaned>>
    /\ UNCHANGED <<now, lvars, cvars, ovars, svars>>

TextNext == TextCleanUp \/ TextParse

SpecText == TextInit /\ [][TextNext]_vars

\* ------------------------------------- the JSON file under arbitrary writers

MaxRecords == 4

\* the records handed to update_json_file
JsonRecords ==
    { OldRecord,
      [OldRecord EXCEPT !.to = LeadEmail],
      email_data(CompleteLead, GoodContent) }

\* the JSON output file as a call can find it: missing, empty, text that is not JSON
\* (an array cut short after its first record), an array, or a JSON value that is
\* not an array
JsonStores ==
    JsonFiles \cup
    { [exists |-> TRUE, valid |-> FALSE, array |-> FALSE, emails |-> <<OldRecord>>],
      [exists |-> TRUE, valid |-> TRUE, array |-> TRUE, emails |-> <<>>],
      [exists |-> TRUE, valid |-> TRUE, array |-> FALSE, emails |-> <<>>] }

JsonInit ==
    /\ tokens_per_minute = MaxTpm
    /\ used_tokens = 0
    /\ window_start = 0
    /\ now = 0
    /\ last_call = NoCall
    /\ csv_exists = TRUE
    /\ leads = <<>>
    /\ lead_i = 0
    /\ pc = "idle"
    /\ attempt = 0
    /\ requests = 0
    /\ sleeps = <<>>
    /\ email_content = NoValue
    /\ outcome = "none"
    /\ json_file \in JsonStores
    /\ text_files = {}
    /\ handled = "none"
    /\ permissions = 0
    /\ received = NoResponse
    /\ overspent = FALSE
    /\ json_call = NoJsonCall
    /\ TextIdle
    /\ OrchestratorIdle
    /\ SenderIdle

\* one update_json_file call
JsonUpdate ==
    \E data \in JsonRecords :
        /\ Len(json_file.emails) < MaxRecords
        /\ json_file' = update_json_file(data, json_file)
        /\ json_call' = JsonCall(data, json_file)
        /\ UNCHANGED <<csv_exists, leads, lead_i, pc, attempt, requests, sleeps,
                       email_content, outcome, text_files, handled, permissions,
                       received, overspent>>
        /\ UNCHANGED <<now, lvars, tvars, ovars, svars>>

JsonNext == JsonUpdate

SpecJson == JsonInit /\ [][JsonNext]_vars

\* ------------------------------------------------------------- the send stage

TestSubjectPrefix == <<"[", "T", "E", "S", "T", "]", " ">>

\* the values of TEST_EMAIL_RECIPIENT: the default and another address
TestRecipients == {<<"t", "@", "p">>, <<"q", "@", "r">>}

\* what the user types at a prompt
Answers == {<<" ", "Y", "e", "s">>, <<"N">>, <<"o", "k">>}

\* input(...).strip().lower()
Normalised(answer) == Lower(Strip(answer))

\* response in ['yes', 'y']
IsYes(response) == response \in {<<"y", "e", "s">>, <<"y">>}

\* response in ['no', 'n']
IsNo(response) == response \in {<<"n", "o">>, <<"n">>}

\* the value read_outreach_emails returns for an array: the list, and None for a
\* file that is missing or is not JSON
read_outreach_emails(file) ==
    IF file.exists /\ file.valid
    THEN [none |-> FALSE, emails |-> file.emails]
    ELSE [none |-> TRUE, emails |-> <<>>]

\* mutant: the message goes to the address stored with the email
test_message_to_lead(data, recipient) ==
    [subject |-> TestSubjectPrefix \o data.subject, from |-> data.from, to |-> data.to]

\* the message send_test_email hands to server.sendmail
test_message(data, recipient) ==
    [subject |-> TestSubjectPrefix \o data.subject, from |-> data.from, to |-> recipient]

\* how the SMTP session of send_test_email ends: an exception before sendmail, in
\* sendmail, in quit after sendmail, or none
SmtpOutcomes == {"login_error", "sendmail_error", "quit_error", "sent"}

\* the sender's main() enters from nothing: the composer has not been called
SenderInit ==
    /\ tokens_per_minute \in TpmChoices
    /\ used_tokens = 0
    /\ window_start = 0
    /\ now = 0
    /\ last_call = NoCall
    /\ \/ csv_exists = TRUE /\ leads \in LeadLists
       \/ csv_exists = FALSE /\ leads = <<>>
    /\ lead_i = 0
    /\ pc = "idle"
    /\ attempt = 0
    /\ requests = 0
    /\ sleeps = <<>>
    /\ email_content = NoValue
    /\ outcome = "none"
    /\ json_file \in JsonStores
    /\ text_files = {}
    /\ handled = "none"
    /\ permissions = 0
    /\ received = NoResponse
    /\ overspent = FALSE
    /\ json_call = NoJsonCall
    /\ TextIdle
    /\ OrchestratorIdle
    /\ spc = "main"
    /\ test_recipient \in TestRecipients
    /\ test_email_data = NoRecord
    /\ confirm_response = <<>>
    /\ continue_response = <<>>
    /\ send_success = FALSE
    /\ sent = <<>>

\* main() up to the first prompt: read_outreach_emails, the test for no emails,
\* emails[0]. A JSON value that is not an array is falsy (main returns) or has no
\* element 0 (main raises).
SenderRead ==
    /\ spc = "main"
    /\ LET emails == read_outreach_emails(json_file)
       IN  IF emails.none \/ (json_file.array /\ Len(emails.emails) = 0)
           THEN /\ spc' = "returned"
                /\ UNCHANGED test_email_data
           ELSE IF ~json_file.array
           THEN /\ spc' \in {"returned", "raised"}
                /\ UNCHANGED test_email_data
           ELSE /\ spc' = "confirm"
                /\ test_email_data' = emails.emails[1]
    /\ UNCHANGED <<test_recipient, confirm_response, continue_response, send_success,
                   sent>>
    /\ UNCHANGED <<now, lvars, cvars, tvars, ovars>>

\* one round of the loop around "Do you want to send this test email? (yes/no)"
SenderConfirm ==
    /\ spc = "confirm"
    /\ \E answer \in Answers :
          /\ confirm_response' = Normalised(answer)
          /\ spc' = IF IsYes(Normalised(answer)) THEN "send"
                    ELSE IF IsNo(Normalised(answer)) THEN "returned"
                    ELSE "confirm"
    /\ UNCHANGED <<test_recipient, test_email_data, continue_response, send_success,
                   sent>>
    /\ UNCHANGED <<now, lvars, cvars, tvars, ovars>>

\* success = send_test_email(test_email_data, test_recipient)
SenderSend ==
    /\ spc = "send"
    /\ \E smtp \in SmtpOutcomes :
          /\ sent' = IF smtp \in {"quit_error", "sent"}
                     THEN Append(sent, test_message(test_email_data, test_recipient))
                     ELSE sent
          /\ send_success' = (smtp = "sent")
          /\ spc' = IF smtp = "sent" THEN "proceed" ELSE "returned"
    /\ UNCHANGED <<test_recipient, test_email_data, confirm_response, continue_response>>
    /\ UNCHANGED <<now, lvars, cvars, tvars, ovars>>

\* one round of the loop around "Proceed with the main email campaign? (yes/no)":
\* on yes, run_main_campaign() is entered, which is email_composer.main
SenderProceed ==
    /\ spc = "proceed"
    /\ \E answer \in Answers :
          /\ continue_response' = Normalised(answer)
          /\ IF IsYes(Normalised(answer))
             THEN /\ spc' = "campaign"
                  /\ pc' = "main"
             ELSE /\ spc' = IF IsNo(Normalised(answer)) THEN "returned" ELSE "proceed"
                  /\ UNCHANGED pc
    /\ UNCHANGED <<test_recipient, test_email_data, confirm_response, send_success, sent>>
    /\ UNCHANGED <<csv_exists, leads, lead_i, attempt, requests, sleeps, email_content,
                   outcome, json_file, text_files, handled, permissions, received,
                   overspent, json_call>>
    /\ UNCHANGED <<now, lvars, tvars, ovars>>

\* run_main_campaign() has returned: break, and main() returns
SenderCampaignReturns ==
    /\ spc = "campaign"
    /\ pc = "returned"
    /\ spc' = "returned"
    /\ UNCHANGED <<test_recipient, test_email_data, confirm_response, continue_response,
                   send_success, sent>>
    /\ UNCHANGED <<now, lvars, cvars, tvars, ovars>>

SenderNext ==
    \/ SenderRead
    \/ SenderConfirm
    \/ SenderSend
    \/ SenderProceed
    \/ SenderCampaignReturns
    \/ ComposerNext

SpecSender == SenderInit /\ [][SenderNext]_vars

\* ------------------------------------------------- claims on the limiter

\* the step is a request_permission call
PermissionStep ==
    /\ last_call' /= last_call
    /\ last_call'.op = "request_permission"

\* the step is a record_usage call
RecordStep ==
    /\ last_call' /= last_call
    /\ last_call'.op = "record_usage"

\* C5: a permission check made not more than one minute after window_start, with an
\* estimated cost of at most tokens_per_minute - used_tokens, returns 0.
C5_GrantWithinBudget ==
    ( /\ last_call.op = "request_permission"
      /\ last_call.t - last_call.start0 <= 60 * TicksPerSecond
      /\ last_call.arg <= tokens_per_minute - last_call.used0 )
    => last_call.ret = 0

\* the check was made inside a window that already holds usage, for exactly the rest
\* of the budget, and was granted
C5_Witness ==
    /\ last_call.op = "request_permission"
    /\ last_call.t - last_call.start0 <= 60 * TicksPerSecond
    /\ last_call.t > last_call.start0
    /\ last_call.used0 > 0
    /\ last_call.arg = tokens_per_minute - last_call.used0
    /\ last_call.ret = 0

\* C6 as stated: for every cost above the remaining budget and every elapsed time
\* within the window, 60 seconds included, the returned wait w has 0 < w <= 60.
C6_Original ==
    ( /\ last_call.op = "request_permission"
      /\ last_call.t - last_call.start0 <= 60 * TicksPerSecond
      /\ last_call.arg > tokens_per_minute - last_call.used0 )
    => (last_call.ret > 0 /\ last_call.ret <= 60)

\* What request_permission does for a cost above the remaining budget (C6): a check
\* made less than 60 seconds after window_start returns w = 60 - (whole seconds
\* elapsed), 0 < w <= 60, the time left in the window rounded up to a whole second;
\* a check made exactly 60 seconds after window_start returns 0.
C6_WaitUntilReset ==
    ( /\ last_call.op = "request_permission"
      /\ last_call.t - last_call.start0 <= 60 * TicksPerSecond
      /\ last_call.arg > tokens_per_minute - last_call.used0 )
    => LET elapsed == last_call.t - last_call.start0
           left == 60 * TicksPerSecond - elapsed
           w == last_call.ret
       IN  /\ w * TicksPerSecond >= left
           /\ w * TicksPerSecond < left + TicksPerSecond
           /\ elapsed < 60 * TicksPerSecond => (w > 0 /\ w <= 60)
           /\ elapsed = 60 * TicksPerSecond => w = 0

\* a check over budget 59.5 seconds into the window was told to wait one second
C6_Witness ==
    /\ last_call.op = "request_permission"
    /\ last_call.arg > tokens_per_minute - last_call.used0
    /\ last_call.t - last_call.start0 = 60 * TicksPerSecond - 1
    /\ last_call.ret = 1

\* C7: a permission check made more than one minute after window_start sets
\* used_tokens to 0, sets window_start to the time of the check and returns 0.
C7_ResetAfterMinute ==
    [][ (PermissionStep /\ now - window_start > 60 * TicksPerSecond)
        => ( /\ used_tokens' = 0
             /\ window_start' = now
             /\ last_call'.ret = 0 ) ]_vars

\* a check for more than the whole budget, made after the minute with usage
\* accumulated, has emptied the counter and was granted
C7_Witness ==
    /\ last_call.op = "request_permission"
    /\ last_call.t - last_call.start0 > 60 * TicksPerSecond
    /\ last_call.used0 > 0
    /\ last_call.arg > tokens_per_minute - last_call.used0
    /\ last_call.ret = 0
    /\ used_tokens = 0
    /\ window_start = last_call.t

\* C8: used_tokens is never negative; it decreases only in a step that sets it to 0
\* and starts a new window, more than a minute after the old window started; and a
\* new window never starts with tokens carried over.
C8_CounterMonotoneInWindow ==
    /\ [](used_tokens >= 0)
    /\ [][ /\ used_tokens' < used_tokens =>
                ( /\ used_tokens' = 0
                  /\ now - window_start > 60 * TicksPerSecond
                  /\ window_start' = now )
           /\ window_start' /= window_start =>
                ( /\ used_tokens' = 0
                  /\ now - window_start > 60 * TicksPerSecond )
           /\ window_start' = window_start => used_tokens' >= used_tokens ]_vars

\* usage was recorded on top of earlier usage in a window that began at a reset
C8_Witness ==
    /\ last_call.op = "record_usage"
    /\ last_call.used0 > 0
    /\ last_call.arg > 0
    /\ window_start > 0
    /\ used_tokens = last_call.used0 + last_call.arg

\* C9 as stated: after record_usage(x) and a permission check right after it, the
\* apparent remaining budget is at most the remaining budget before record_usage
\* minus x.
C9_Original ==
    ( /\ last_call.op = "request_permission"
      /\ last_call.rec_arg >= 0 )
    => tokens_per_minute - used_tokens
           <= (tokens_per_minute - last_call.rec_used0) - last_call.rec_arg

\* C9 amended: when the permission check that follows record_usage(x) is made not
\* more than one minute after window_start, the remaining budget it compares with
\* the estimated cost is the remaining budget before record_usage minus x; when it
\* is made later, it resets the counter and the whole ceiling is available again.
C9_RecordThenCheck ==
    ( /\ last_call.op = "request_permission"
      /\ last_call.rec_arg >= 0 )
    => IF last_call.t - last_call.start0 <= 60 * TicksPerSecond
       THEN /\ tokens_per_minute - last_call.used0
                  = (tokens_per_minute - last_call.rec_used0) - last_call.rec_arg
            /\ used_tokens = last_call.used0
            /\ last_call.arg <= (tokens_per_minute - last_call.rec_used0)
                                       - last_call.rec_arg
                  => last_call.ret = 0
            /\ ( /\ last_call.arg > (tokens_per_minute - last_call.rec_used0)
                                        - last_call.rec_arg
                 /\ last_call.t - last_call.start0 < 60 * TicksPerSecond )
                  => last_call.ret > 0
       ELSE tokens_per_minute - used_tokens = tokens_per_minute

\* a check inside the window, right after a positive amount was recorded, was
\* refused although it would have been granted before the recording
C9_Witness ==
    /\ last_call.op = "request_permission"
    /\ last_call.rec_arg > 0
    /\ last_call.t - last_call.start0 <= 60 * TicksPerSecond
    /\ last_call.arg <= tokens_per_minute - last_call.rec_used0
    /\ last_call.ret > 0

\* --------------------------------------------- claims on the orchestrator

\* C1: the stages are handled in the order leads, email_composer, email_sender; a
\* stage whose file is missing is not loaded and a stage that is not loaded is not
\* executed; every stage before the latest one was found, loaded and judged a
\* success, so nothing follows the first failure; and main() returns False exactly
\* when it returns with the latest stage missing, not loaded or judged a failure.
C1_StopAtFirstFailure ==
    /\ Len(ran) <= Len(Stages)
    /\ \A k \in 1..Len(ran) :
          /\ ran[k].stage = Stages[k]
          /\ ran[k].load_called => ran[k].exists
          /\ ran[k].executed => ran[k].load_called
          /\ ran[k].success => ran[k].load_called
          /\ k < Len(ran) => ran[k].success
    /\ main_result = "False" => (Len(ran) >= 1 /\ ~ran[Len(ran)].success)
    /\ (opc = "returned" /\ ~ran[Len(ran)].success) => main_result = "False"

\* leads ran and succeeded, email_composer ran and failed, email_sender was never
\* looked at, and main() returned False
C1_Witness ==
    /\ main_result = "False"
    /\ Len(ran) = 2
    /\ ran[1].executed
    /\ ran[1].success
    /\ ran[2].executed
    /\ ~ran[2].success

C3_SuccessMeansAllStagesDone ==
    main_result = "True" =>
        /\ Len(ran) = Len(Stages)
        /\ \A k \in 1..Len(ran) :
              /\ ran[k].stage = Stages[k]
              /\ ran[k].executed
              /\ ~ran[k].outcome.raised
              /\ ran[k].outcome.work = "done"

\* ------------------------------------------------ claims on the composer

FailureOutcomes == {"no_choices", "retries_exhausted", "exception", "fell_through"}

\* C4: when generate_email_with_groq returns a failure result (retries exhausted
\* after three transport errors, or any other failure return), main() saves no text
\* file and appends no record: the text files and the JSON file stay as they were.
C4_FailureLeavesOutputsUnchanged ==
    [][ (pc = "handle" /\ outcome \in FailureOutcomes)
        => (json_file' = json_file /\ text_files' = text_files) ]_vars

\* C10: a call of generate_email_with_groq issues at most max_retries HTTP requests,
\* returns after finitely many steps, and returns a str, the generated text or a
\* failure string, never None.
C10_BoundedAttemptsOneOutcome ==
    /\ [](requests <= 3)
    /\ [](pc = "handle" =>
            /\ ~email_content.none
            /\ outcome \in {"text", "no_choices", "retries_exhausted", "exception"})
    /\ [](pc \in {"permission", "attempt"} => <>(pc = "handle"))

\* a call that was throttled, then hit a transport error, returned at its third
\* request
C10_Witness ==
    /\ pc = "handle"
    /\ requests = 3
    /\ ~email_content.none
    /\ \E i \in 1..Len(sleeps) : sleeps[i].why = "throttled"
    /\ \E i \in 1..Len(sleeps) : sleeps[i].why = "backoff"

GenerationSucceeded == outcome = "text" /\ Accepted(email_content)

\* C12: the JSON array changes only in the step that follows a successful
\* generation, which appends the record of that lead at its end; a skipped lead and
\* a lead whose generation failed leave the array as it was.
C12_OneRecordPerSuccess ==
    [][ IF pc = "handle" /\ GenerationSucceeded
        THEN json_file'.emails =
                Append(loaded_emails(json_file),
                       email_data(leads[lead_i], email_content.s))
        ELSE json_file' = json_file ]_vars

\* C13: the step that skips a lead without a name or without an email address calls
\* neither request_permission nor record_usage, sends no request, leaves the limiter,
\* the text files and the JSON file as they were, and moves to the next lead.
C13_SkipTouchesNothing ==
    [][ ( /\ pc = "lead"
          /\ lead_i <= Len(leads)
          /\ (leads[lead_i].name = <<>> \/ leads[lead_i].emails = <<>>) )
        => ( /\ pc' = "lead"
             /\ lead_i' = lead_i + 1
             /\ handled' \in {"skipped_no_name", "skipped_no_email"}
             /\ lvars' = lvars
             /\ requests' = requests
             /\ sleeps' = sleeps
             /\ now' = now
             /\ json_file' = json_file
             /\ text_files' = text_files ) ]_vars

\* the first lead was saved, the second has no email address and was skipped: still
\* one record, one text file, and the limiter's last call is the first lead's
C13_Witness ==
    /\ handled = "skipped_no_email"
    /\ lead_i = 3
    /\ Len(loaded_emails(json_file)) >= 1
    /\ Cardinality(text_files) = 1
    /\ last_call.op = "record_usage"
    /\ requests = 0

\* C14: the process ends with status 0 exactly when main() returned True, with 1
\* when main() returned False or an exception left it, and with 130 when the user
\* interrupted it: a KeyboardInterrupt raised anywhere in the workflow, inside
\* load_module and run_module included, is followed by the exit with status 130.
C14_ExitStatus ==
    /\ [](opc = "exited" =>
            /\ exit_status \in {0, 1, 130}
            /\ exit_status = 0 <=> main_result = "True"
            /\ main_result = "False" => exit_status = 1
            /\ main_result = "none" => exit_status \in {1, 130})
    /\ [](opc /= "exited" => exit_status = -1)
    /\ [][ (opc \in Interrupts) => (opc' = "exited" /\ exit_status' = 130) ]_vars

\* the user interrupted the second stage while its main() was running, and the
\* process ended with status 130
C14_Witness ==
    /\ opc = "exited"
    /\ exit_status = 130
    /\ Len(ran) = 2
    /\ ran[2].load_called
    /\ module.loaded
    /\ module.has_main
    /\ ~ran[2].executed

\* --------------------------------------------------- claims on the texts

\* sub occurs in s at the 0-based index i
OccursAt(s, sub, i) ==
    /\ i >= 0
    /\ i + Len(sub) <= Len(s)
    /\ SubSeq(s, i + 1, i + Len(sub)) = sub

Occurs(s, sub) == \E i \in 0..Len(s) : OccursAt(s, sub, i)

\* the first occurrence of sub in s is at the 0-based index i
FirstAt(s, sub, i) ==
    /\ OccursAt(s, sub, i)
    /\ \A k \in 0..(i - 1) : ~OccursAt(s, sub, k)

\* the text that follows the first marker of a text that has one
AfterMarker(t) ==
    LET m == CHOOSE i \in 0..Len(t) : FirstAt(t, Marker, i)
    IN  SubSeq(t, m + Len(Marker) + 1, Len(t))

\* (subject, body) are the trimmed parts of rem before and after its first line
\* break, or the trimmed rem and nothing when rem has no line break
SplitAtLineBreak(rem, subject, body) ==
    IF Occurs(rem, Newline)
    THEN \A j \in 0..Len(rem) :
            FirstAt(rem, Newline, j) =>
                /\ subject = Strip(SubSeq(rem, 1, j))
                /\ body = Strip(SubSeq(rem, j + 2, Len(rem)))
    ELSE /\ subject = Strip(rem)
         /\ body = <<>>

\* C15 as stated: with a marker, the subject is the trimmed text between the first
\* marker and the first line break that follows it and the body the trimmed text
\* after that line break; without a line break after the marker the subject is the
\* remainder (trimmed) and the body is empty; without a marker the subject is empty
\* and the body is the whole text.
C15_Original ==
    ~parse_result.none =>
        IF Occurs(raw_text, Marker)
        THEN SplitAtLineBreak(AfterMarker(raw_text), parse_result.subject,
                              parse_result.body)
        ELSE /\ parse_result.subject = <<>>
             /\ parse_result.body = raw_text

\* C15 amended: with a marker, the text after the first marker is trimmed first, so
\* that line breaks right after the marker do not count; the subject is the trimmed
\* text before the first line break of that trimmed remainder and the body the
\* trimmed text after it; without a line break in it the subject is the trimmed
\* remainder and the body is empty; without a marker the subject is empty and the
\* body is the whole text, untrimmed.
C15_SplitTrimmedRemainder ==
    ~parse_result.none =>
        IF Occurs(raw_text, Marker)
        THEN /\ SplitAtLineBreak(Strip(AfterMarker(raw_text)), parse_result.subject,
                                 parse_result.body)
             /\ ~Occurs(parse_result.subject, Newline)
             /\ Strip(parse_result.subject) = parse_result.subject
             /\ Strip(parse_result.body) = parse_result.body
        ELSE /\ parse_result.subject = <<>>
             /\ parse_result.body = raw_text

\* a text whose marker is followed by a line break right away: the subject is the
\* line after it
C15_Witness ==
    /\ raw_text = Marker \o Newline \o <<"H">> \o Newline
    /\ ~parse_result.none
    /\ parse_result.subject = <<"H">>
    /\ parse_result.body = <<>>

\* t begins with one of the lead-in phrases, whatever the case of its letters
HasLeadIn(t) ==
    \E p \in LeadIns :
        /\ Len(t) >= Len(p)
        /\ \A i \in 1..Len(p) : LowerChar(t[i]) = p[i]

\* the marker, whatever the case of its letters, is in t at the 0-based index i
MarkerAt(t, i) ==
    /\ i >= 0
    /\ i + Len(MarkerLower) <= Len(t)
    /\ \A k \in 1..Len(MarkerLower) : LowerChar(t[i + k]) = MarkerLower[k]

\* C16: a text that begins with a lead-in phrase and holds the marker is cleaned to
\* its suffix that starts at the first marker (letters compared without regard to
\* case); any other text is returned as it is.
C16_CleanedStartsAtMarker ==
    ~cleaned.none =>
        IF HasLeadIn(raw_text) /\ (\E i \in 0..Len(raw_text) : MarkerAt(raw_text, i))
        THEN \A i \in 0..Len(raw_text) :
                (MarkerAt(raw_text, i) /\ \A k \in 0..(i - 1) : ~MarkerAt(raw_text, k))
                => cleaned.s = SubSeq(raw_text, i + 1, Len(raw_text))
        ELSE cleaned.s = raw_text

\* ------------------------------------- claims on the limiter in the loop

\* the step issues an HTTP request
RequestStep == requests' = requests + 1

\* C17: request_permission is called before every attempt: when the call issues its
\* n-th HTTP request, it has made at least n permission checks.
C17_PermissionBeforeEveryAttempt ==
    [][ RequestStep => permissions >= requests + 1 ]_vars

\* C18: a request is sent only after a permission check that returned zero wait:
\* when the call issues its first HTTP request, the latest limiter call is a
\* request_permission that returned 0, also when earlier checks asked for a wait.
C18_SentOnlyAfterZeroWait ==
    [][ (RequestStep /\ requests = 0)
        => (last_call.op = "request_permission" /\ last_call.ret = 0) ]_vars

\* C19: the step that returns generated text calls record_usage once, with the
\* usage.total_tokens of the response when it reports one and with the estimate
\* otherwise, and that step ends the call; every other step of the attempt loop,
\* and so every path to a failure result, calls no record_usage and leaves
\* used_tokens as it was.
C19_UsageRecordedOnSuccessOnly ==
    [][ pc = "attempt" =>
          IF outcome' = "text"
          THEN LET total_tokens ==
                       IF received'.usage /= -1 THEN received'.usage
                       ELSE estimated_tokens(leads[lead_i])
               IN  /\ RecordStep
                   /\ last_call'.arg = total_tokens
                   /\ used_tokens' = used_tokens + total_tokens
                   /\ pc' = "handle"
          ELSE /\ last_call' = last_call
               /\ used_tokens' = used_tokens ]_vars

\* a call that was throttled once and then got a text whose response reports a
\* usage other than the estimate: that usage was recorded
C19_Witness ==
    /\ pc = "handle"
    /\ outcome = "text"
    /\ requests = 2
    /\ received.usage = MaxCost
    /\ estimated_tokens(leads[lead_i]) /= MaxCost
    /\ last_call.op = "record_usage"
    /\ last_call.arg = MaxCost

\* C20: a 429 at an attempt before the last makes the loop sleep for the Retry-After
\* of the response, or for 60 seconds when the response has none, and go to the next
\* attempt; a 429 at the last attempt ends the call with a failure result.
C20_ThrottledSleepsThenRetries ==
    [][ (pc = "attempt" /\ received'.kind = "429") =>
          IF attempt < max_retries - 1
          THEN /\ sleeps' = Append(sleeps,
                               [why |-> "throttled",
                                seconds |-> IF received'.header.present
                                            THEN received'.header.seconds
                                            ELSE 60,
                                attempt |-> attempt])
               /\ attempt' = attempt + 1
               /\ pc' = "attempt"
          ELSE /\ pc' = "handle"
               /\ outcome' \in FailureOutcomes
               /\ sleeps' = sleeps ]_vars

\* ------------------------------------------- claims on the retry backoff

C22_PermissionReservesNothing ==
    [][ /\ (PermissionStep /\ ~WindowElapsed(now, window_start)) =>
              /\ used_tokens' = used_tokens
              /\ window_start' = window_start
              /\ tokens_per_minute' = tokens_per_minute
        /\ (used_tokens' /= used_tokens) =>
              \/ /\ RecordStep
                 /\ used_tokens' = used_tokens + last_call'.arg
                 /\ window_start' = window_start
              \/ /\ PermissionStep
                 /\ WindowElapsed(now, window_start)
                 /\ used_tokens' = 0
                 /\ window_start' = now ]_vars

\* a granted check inside the window, made on a counter that is not zero, has left
\* the counter and the window start alone
C22_Witness ==
    /\ last_call.op = "request_permission"
    /\ last_call.ret = 0
    /\ last_call.arg > 0
    /\ ~WindowElapsed(last_call.t, last_call.start0)
    /\ last_call.used0 > 0
    /\ used_tokens = last_call.used0
    /\ window_start = last_call.start0
    /\ now = last_call.t

\* the step is an update_json_file call
JsonCallStep == json_call' /= json_call

\* C23 as stated: every update_json_file call returns, keeps the records the file
\* held, in their order, adds the new record as the last element and returns the
\* previous length plus one.
C23_Original ==
    [][ JsonCallStep =>
          /\ json_call'.raised = "none"
          /\ json_file'.emails = Append(json_file.emails, json_call'.data)
          /\ json_call'.ret = Len(json_file.emails) + 1 ]_vars

\* C23: an update_json_file call that finds no file or a JSON array keeps the
\* stored records in their order, adds the new record last and returns the previous
\* length plus one; a call that finds text that is not JSON leaves an array of the
\* new record alone and returns 1; a call that finds a JSON value that is not an
\* array raises and leaves the file as it was.
C23_AppendsToLoadedArray ==
    [][ JsonCallStep =>
          IF json_file.exists /\ json_file.valid /\ ~json_file.array
          THEN /\ json_call'.raised = "AttributeError"
               /\ json_file' = json_file
          ELSE IF json_file.exists /\ ~json_file.valid
          THEN /\ json_call'.raised = "none"
               /\ json_file'.emails = <<json_call'.data>>
               /\ json_call'.ret = 1
               /\ json_file'.valid /\ json_file'.array
          ELSE /\ json_call'.raised = "none"
               /\ json_file'.emails = Append(json_file.emails, json_call'.data)
               /\ json_call'.ret = Len(json_file.emails) + 1
               /\ json_file'.exists /\ json_file'.valid /\ json_file'.array ]_vars

\* two calls have appended to an array that held a record
C23_Witness ==
    /\ json_call.raised = "none"
    /\ json_call.ret = 3
    /\ Len(json_file.emails) = 3
    /\ json_file.emails[1] = OldRecord
    /\ json_file.emails[2] = email_data(CompleteLead, GoodContent)
    /\ json_file.emails[3] = json_call.data
    /\ json_call.data = [OldRecord EXCEPT !.to = LeadEmail]

\* C24 as stated: in a composer run in which no response reported more tokens than
\* the estimate of its request, used_tokens never exceeds tokens_per_minute.
C24_Original == ~overspent => used_tokens <= tokens_per_minute

\* the sender's main() is running
SendStage == spc \in {"main", "confirm", "send", "proceed", "campaign"}

\* C25 as stated: the send stage runs no compose logic: it sends no generation
\* request for a lead and appends no record to the JSON file.
C25_Original ==
    [][ SendStage =>
          /\ requests' = requests
          /\ json_file' = json_file ]_vars

\* C26: the send stage hands at most one message to the SMTP server; it is
\* addressed to test_recipient and not to the address stored with the email; it is
\* sent only after a yes to the confirmation prompt and only when the file held an
\* email; after a no, or with no email stored, nothing has been sent.
C26_OneConfirmedTestMessage ==
    /\ Len(sent) <= 1
    /\ \A i \in 1..Len(sent) :
          /\ sent[i].to = test_recipient
          /\ sent[i].to /= test_email_data.to
    /\ sent /= <<>> =>
          /\ IsYes(confirm_response)
          /\ test_email_data /= NoRecord
    /\ (IsNo(confirm_response) \/ test_email_data = NoRecord) => sent = <<>>

\* the test message went out, to the test recipient, and the campaign has run
C26_Witness ==
    /\ spc = "returned"
    /\ Len(sent) = 1
    /\ sent[1].to = test_recipient
    /\ sent[1].subject = TestSubjectPrefix \o OldRecord.subject
    /\ test_email_data = OldRecord
    /\ IsYes(confirm_response)
    /\ IsYes(continue_response)
    /\ pc = "returned"

====
